---- MODULE Spec2Model ----
(***************************************************************************)
(* CamPorter front end (the Svelte page component): device selection, the  *)
(* media scan, the thumbnail queue and cache, the selection, the duplicate *)
(* check, unmounting and the import-progress listener.  The backend        *)
(* commands (list_removable_drives, list_media_files, get_file_thumbnail,  *)
(* check_files_exist_in_destination, unmount_drive, import_selected_files) *)
(* are invocations in flight that the environment resolves or rejects;     *)
(* every action is one JavaScript task: a handler run                      *)
(* from its start, or from the resumption of an await, up to its next      *)
(* suspension on an invocation or a timer (promise continuations and       *)
(* Svelte's tick() are microtasks and run inside the same task).           *)
(***************************************************************************)
EXTENDS Integers, Sequences, FiniteSets, Bags, TLC

\* Bounds of the model.
MaxScans == 2
MaxDirect == 1
MaxImports == 2
MaxUnmounts == 1
MaxRefresh == 1
MaxChecks == 2
MaxLoads == 3

VARIABLES
  selectedDrive,             \* let selectedDrive = ''
  mediaFiles,                \* let mediaFiles: MediaFile[] = []
  selectedFiles,             \* let selectedFiles: Set<string>
  isLoading,                 \* let isLoading = false
  thumbnailCache,            \* Record<string, string>: path -> payload
  thumbnailLoadingStates,    \* Record<string, 'pending'|'loading'|'loaded'|'error'>
  thumbnailGenerationQueue,  \* string[]
  isGeneratingThumbnails,    \* boolean
  scans,                     \* bag of list_media_files invocations in flight (drivePath)
  thumbnailCalls,            \* bag of get_file_thumbnail invocations in flight
  chains,                    \* bag of suspended processNextThumbnail activations
  returned,                  \* what the last settled getThumbnail call returned
  hits,                      \* history: the callers ("queue", "direct") that have had a cache hit
  resetPaths,                \* history: thumbnail paths of the scan that did the latest reset
  stalePaths,                \* history: paths written since the latest reset by an older request
  nScans,                    \* number of loadMediaFiles calls so far
  nDirect,                   \* number of getThumbnail calls so far
  destination,               \* let destination = ''
  isImporting,               \* let isImporting = false
  progress,                  \* let progress = '' (a text: a sequence of symbols)
  progressPercent,           \* let progressPercent = 0 (a JavaScript number)
  importPc,                  \* bag of suspended importSelectedFiles runs ("listen", "invoke")
  listeners,                 \* number of registered import-progress listeners
  lastEvent,                 \* history: the last import-progress event of the current import
  nImports,                  \* number of importSelectedFiles runs so far
  importSent,                \* history: the filePaths of the last import_selected_files call
  requested,                 \* history: bag of paths the queue has requested since the latest reset
  drives,                    \* let drives: Drive[] = []
  driveQueries,              \* number of list_removable_drives invocations in flight
  unmounts,                  \* bag of unmount_drive invocations in flight (mountPoint)
  unmounted,                 \* history: the device whose unmount last emptied selectedDrive, or ""
  nUnmounts,                 \* number of unmountDrive calls so far
  nRefresh,                  \* number of Refresh button presses so far
  existingFiles,             \* let existingFiles: Set<string>
  checks,                    \* bag of check_files_exist_in_destination invocations in flight
  file,                      \* MediaPreview: export let file (NoFile before the preview is shown)
  sourcePath,                \* MediaPreview: export let sourcePath
  blobUrl,                   \* MediaPreview: let blobUrl: string | null = null
  previewIsLoading,          \* MediaPreview: let isLoading = true
  loads,                     \* MediaPreview: the suspended loadMediaBlob runs
  nLoads,                    \* number of loadMediaBlob calls so far
  latestFailed               \* history: the latest loadMediaBlob call has ended in its catch block

pageVars == <<selectedDrive, mediaFiles, selectedFiles, isLoading, thumbnailCache,
          thumbnailLoadingStates, thumbnailGenerationQueue, isGeneratingThumbnails,
          scans, thumbnailCalls, chains, returned, hits, resetPaths, stalePaths,
          nScans, nDirect, destination, isImporting, progress, progressPercent,
          importPc, listeners, lastEvent, nImports, importSent, requested, drives,
          driveQueries, unmounts, unmounted, nUnmounts, nRefresh, existingFiles,
          checks>>

previewVars == <<file, sourcePath, blobUrl, previewIsLoading, loads, nLoads, latestFailed>>

vars == <<pageVars, previewVars>>

importVars == <<destination, isImporting, progress, progressPercent, importPc,
                listeners, lastEvent, nImports, importSent>>

deviceVars == <<drives, driveQueries, unmounts, unmounted, nUnmounts, nRefresh>>

dupVars == <<existingFiles, checks>>

(***************************************************************************)
(* The devices and what the backend finds on them.                         *)
(***************************************************************************)
Drives == {"/mnt/A", "/mnt/B"}

\* a device that holds no media file
EmptyDrive == "/mnt/E"

\* interface Drive
Drive(n, m, id) == [name |-> n, mount_point |-> m, device_id |-> id]
DriveA == Drive("EOS_DIGITAL", "/mnt/A", "/dev/sdb1")
DriveB == Drive("GOPRO", "/mnt/B", "/dev/sdc1")
DriveE == Drive("NO NAME", EmptyDrive, "/dev/sdd1")

\* what list_removable_drives resolves with when both cameras are plugged in
BothDrives == <<DriveA, DriveB>>

\* the values of the <option>s built from drives
MountPoints(ds) == { ds[i].mount_point : i \in DOMAIN ds }

(***************************************************************************)
(* The files the preview component is given.                               *)
(***************************************************************************)
\* the prop before the component is shown
NoFile == [name |-> "", path |-> "", extension |-> "", is_image |-> FALSE, is_video |-> FALSE]

\* the file prop of MediaPreview
PreviewFile(n, p, e, img, vid) ==
  [name |-> n, path |-> p, extension |-> e, is_image |-> img, is_video |-> vid]

PreviewFiles == { PreviewFile("1.jpg", "/mnt/A/1.jpg", "JPG", TRUE, FALSE),
                  PreviewFile("2.mp4", "/mnt/A/2.mp4", "mp4", FALSE, TRUE) }

\* blobUrl = null
NoBlob == [data |-> "", type |-> ""]

MediaFile(p, img, vid) == [path |-> p, is_image |-> img, is_video |-> vid]

FilesOn(d) ==
  IF d = "/mnt/A"
    THEN << MediaFile("/mnt/A/1.jpg", TRUE, FALSE),
            MediaFile("/mnt/A/2.mp4", FALSE, TRUE),
            MediaFile("/mnt/A/3.mp3", FALSE, FALSE) >>
    ELSE IF d = "/mnt/B"
      THEN << MediaFile("/mnt/B/1.jpg", TRUE, FALSE) >>
      ELSE <<>>

\* get_file_thumbnail(path) resolves with the data URI of the preview of that file
\* (a text: the MIME header, then the encoded preview, which stands for the file)
Payload(p) == <<"data:image/jpeg;base64,", p>>

\* the empty string
NoPayload == <<>>

SeqRange(s) == {s[i] : i \in 1..Len(s)}

PathsOf(files) == {f.path : f \in SeqRange(files)}

\* obj[k] = v on a JavaScript object used as a map
Put(obj, k, v) == [x \in (DOMAIN obj) \cup {k} |-> IF x = k THEN v ELSE obj[x]]

EmptyMap == [x \in {} |-> <<>>]

\* a lookup that misses every time (the cache test left out)
CachedNever(cache, p) == FALSE

\* thumbnailCache[filePath] as a condition: the key is present (payloads are non-empty)
Cached(cache, p) == p \in DOMAIN cache

\* getThumbnailState: thumbnailLoadingStates[filePath] || 'pending'
getThumbnailState(p) ==
  IF p \in DOMAIN thumbnailLoadingStates THEN thumbnailLoadingStates[p] ELSE "pending"

(***************************************************************************)
(* The thumbnail functions, as functions of the thumbnail state            *)
(* T = [cache, states, queue, generating, calls, chains].                  *)
(***************************************************************************)
ThumbState ==
  [cache |-> thumbnailCache, states |-> thumbnailLoadingStates,
   queue |-> thumbnailGenerationQueue, generating |-> isGeneratingThumbnails,
   calls |-> thumbnailCalls, chains |-> chains]

Call(p, by) == [path |-> p, by |-> by, stale |-> FALSE]

AwaitingCall(p) == [pc |-> "await_invoke", path |-> p]
AwaitingTimer == [pc |-> "timer", path |-> ""]

One(x) == SetToBag({x})

\* generateSingleThumbnail up to its await; on a cache hit it returns at once and
\* processNextThumbnail runs on to its setTimeout.
generateSingleThumbnail(T, p) ==
  IF Cached(T.cache, p)
    THEN [T EXCEPT !.chains = @ (+) One(AwaitingTimer)]
    ELSE [T EXCEPT !.states = Put(@, p, "loading"),
                   !.calls = @ (+) One(Call(p, "queue")),
                   !.chains = @ (+) One(AwaitingCall(p))]

\* processNextThumbnail from its start to its first suspension
processNextThumbnail(T) ==
  IF Len(T.queue) = 0
    THEN [T EXCEPT !.generating = FALSE]
    ELSE generateSingleThumbnail([T EXCEPT !.queue = Tail(@)], Head(T.queue))

\* the early return without the isGeneratingThumbnails test
StartGuardNoCheck(T) == Len(T.queue) = 0

\* the early return of startThumbnailGeneration
StartGuard(T) == T.generating \/ Len(T.queue) = 0

startThumbnailGeneration(T) ==
  IF StartGuard(T) THEN T
  ELSE processNextThumbnail([T EXCEPT !.generating = TRUE])

ThumbPaths(files) ==
  SelectSeq([i \in 1..Len(files) |-> files[i]], LAMBDA f : f.is_image \/ f.is_video)

MarkStale(calls) ==
  LET old == BagToSet(calls)
      new == {[c EXCEPT !.stale = TRUE] : c \in old}
  IN [n \in new |->
        LET pre == {c \in old : [c EXCEPT !.stale = TRUE] = n}
            RECURSIVE Sum(_)
            Sum(S) == IF S = {} THEN 0
                      ELSE LET c == CHOOSE x \in S : TRUE
                           IN calls[c] + Sum(S \ {c})
        IN Sum(pre)]

initializeThumbnailGeneration(T, files) ==
  LET thumbs == ThumbPaths(files)
      T1 == [T EXCEPT !.cache = EmptyMap,
                      !.states = [p \in PathsOf(thumbs) |-> "pending"],
                      !.queue = [i \in 1..Len(thumbs) |-> thumbs[i].path]]
  IN startThumbnailGeneration(T1)

SetThumbState(T) ==
  /\ thumbnailCache' = T.cache
  /\ thumbnailLoadingStates' = T.states
  /\ thumbnailGenerationQueue' = T.queue
  /\ isGeneratingThumbnails' = T.generating
  /\ thumbnailCalls' = T.calls
  /\ chains' = T.chains

thumbVars == <<thumbnailCache, thumbnailLoadingStates, thumbnailGenerationQueue,
               isGeneratingThumbnails, thumbnailCalls, chains>>

(***************************************************************************)
(* Texts and JavaScript numbers.  A text is a sequence of symbols; a       *)
(* symbol is one character, or a word that stands for its letters (no word *)
(* contains ':' and no word other than "PROGRESS" begins with those        *)
(* letters, so prefix tests and splits at ':' act as on the characters).   *)
(* A JavaScript number is <<n, d>>: n/d when d > 0 (in lowest terms),      *)
(* NaN = <<0, 0>>, Infinity = <<1, 0>>, -Infinity = <<-1, 0>>.             *)
(***************************************************************************)
Colon == ":"
PROGRESS_BYTES_PREFIX == <<"PROGRESS", "_BYTES", Colon>>
PROGRESS_PREFIX == <<"PROGRESS", Colon>>

\* String.prototype.startsWith
StartsWith(s, pre) == Len(s) >= Len(pre) /\ SubSeq(s, 1, Len(pre)) = pre

\* String.prototype.split(':')
RECURSIVE Split(_)
Split(s) ==
  IF \A i \in 1..Len(s) : s[i] # Colon
    THEN <<s>>
    ELSE LET i == CHOOSE k \in 1..Len(s) :
                    s[k] = Colon /\ \A j \in 1..(k - 1) : s[j] # Colon
         IN <<SubSeq(s, 1, i - 1)>> \o Split(SubSeq(s, i + 1, Len(s)))

Digits == {"0", "1", "2", "3", "4", "5", "6", "7", "8", "9"}

DigitValue(c) ==
  CASE c = "0" -> 0 [] c = "1" -> 1 [] c = "2" -> 2 [] c = "3" -> 3 [] c = "4" -> 4
    [] c = "5" -> 5 [] c = "6" -> 6 [] c = "7" -> 7 [] c = "8" -> 8 [] c = "9" -> 9

NaN == <<0, 0>>
Infinity == <<1, 0>>
NegInfinity == <<-1, 0>>
Num(n) == <<n, 1>>

RECURSIVE Gcd(_, _)
Gcd(a, b) == IF b = 0 THEN a ELSE Gcd(b, a % b)

Abs(n) == IF n < 0 THEN -n ELSE n

\* n/d for d # 0, in lowest terms with a positive denominator
Ratio(n, d) ==
  LET g == Gcd(Abs(n), Abs(d))
      sg == IF d < 0 THEN -1 ELSE 1
  IN <<sg * (n \div g), sg * (d \div g)>>

IsNaN(x) == x = NaN
IsFinite(x) == x[2] > 0

\* x / y on JavaScript numbers
JsDiv(x, y) ==
  IF IsNaN(x) \/ IsNaN(y) THEN NaN
  ELSE IF IsFinite(x) /\ IsFinite(y)
    THEN IF y[1] = 0
           THEN (IF x[1] = 0 THEN NaN ELSE IF x[1] > 0 THEN Infinity ELSE NegInfinity)
           ELSE Ratio(x[1] * y[2], x[2] * y[1])
  ELSE IF IsFinite(x) THEN Num(0)
  ELSE IF IsFinite(y) THEN (IF (x[1] > 0) = (y[1] >= 0) THEN Infinity ELSE NegInfinity)
  ELSE NaN

\* x * y on JavaScript numbers
JsMul(x, y) ==
  IF IsNaN(x) \/ IsNaN(y) THEN NaN
  ELSE IF IsFinite(x) /\ IsFinite(y) THEN Ratio(x[1] * y[1], x[2] * y[2])
  ELSE IF x[1] = 0 \/ y[1] = 0 THEN NaN
  ELSE IF (x[1] > 0) = (y[1] > 0) THEN Infinity ELSE NegInfinity

\* x > 0 on JavaScript numbers (false for NaN)
JsPositive(x) == ~IsNaN(x) /\ x[1] > 0

\* parseInt(text): blanks, an optional sign, then the longest run of digits
RECURSIVE DigitsValue(_, _)
DigitsValue(s, acc) ==
  IF Len(s) = 0 \/ Head(s) \notin Digits THEN acc
  ELSE DigitsValue(Tail(s), 10 * acc + DigitValue(Head(s)))

RECURSIVE SkipBlanks(_)
SkipBlanks(s) == IF Len(s) > 0 /\ Head(s) = " " THEN SkipBlanks(Tail(s)) ELSE s

parseInt(text) ==
  LET s == SkipBlanks(text)
      signed == Len(s) > 0 /\ Head(s) \in {"-", "+"}
      body == IF signed THEN Tail(s) ELSE s
  IN IF Len(body) = 0 \/ Head(body) \notin Digits THEN NaN
     ELSE IF signed /\ Head(s) = "-" THEN Num(-DigitsValue(body, 0))
     ELSE Num(DigitsValue(body, 0))

\* The import-progress listener: the pair <<progress, progressPercent>> after the
\* handler has run on `message`.
PartsOk(parts) == Len(parts) = 3

\* the fraction copied, not scaled to a percentage
BytesFraction(copied, total) ==
  IF JsPositive(total) THEN JsDiv(copied, total) ELSE Num(0)

BytesPercent(copied, total) ==
  IF JsPositive(total) THEN JsMul(JsDiv(copied, total), Num(100)) ELSE Num(0)

FilesPercent(done, total) == JsMul(JsDiv(done, total), Num(100))

OnImportProgress(message, prog, pct) ==
  IF StartsWith(message, PROGRESS_BYTES_PREFIX)
    THEN LET parts == Split(message)
         IN IF PartsOk(parts)
              THEN <<prog, BytesPercent(parseInt(parts[2]), parseInt(parts[3]))>>
              ELSE <<prog, pct>>
  ELSE IF StartsWith(message, PROGRESS_PREFIX)
    THEN LET parts == Split(message)
         IN IF PartsOk(parts)
              THEN <<prog, FilesPercent(parseInt(parts[2]), parseInt(parts[3]))>>
              ELSE <<prog, pct>>
  ELSE <<message, pct>>

\* The events the backend may emit on the import-progress stream.
Join(head, fields) ==
  LET RECURSIVE J(_)
      J(fs) == IF Len(fs) = 0 THEN <<>> ELSE <<Colon>> \o Head(fs) \o J(Tail(fs))
  IN head \o J(fields)

\* n as the backend formats it (decimal, n >= 0)
DigitOf(k) == CASE k = 0 -> "0" [] k = 1 -> "1" [] k = 2 -> "2" [] k = 3 -> "3"
                [] k = 4 -> "4" [] k = 5 -> "5" [] k = 6 -> "6" [] k = 7 -> "7"
                [] k = 8 -> "8" [] k = 9 -> "9"

RECURSIVE Decimal(_)
Decimal(n) == IF n < 10 THEN <<DigitOf(n)>> ELSE Decimal(n \div 10) \o <<DigitOf(n % 10)>>

BytesMessage(a, b) == Join(<<"PROGRESS", "_BYTES">>, <<Decimal(a), Decimal(b)>>)
FilesMessage(a, b) == Join(<<"PROGRESS">>, <<Decimal(a), Decimal(b)>>)

\* <<done, total>> pairs carried by the structured events
Counts == { <<0, 0>>, <<0, 2>>, <<1, 2>>, <<2, 2>>, <<5, 10>>, <<3, 0>> }

Messages ==
  { BytesMessage(c[1], c[2]) : c \in Counts } \cup
  { FilesMessage(c[1], c[2]) : c \in Counts } \cup
  { Join(<<"PROGRESS", "_BYTES">>, << <<"7">> >>),
    Join(<<"PROGRESS">>, << <<"1">>, <<"2">>, <<"3">> >>),
    <<"PROGRESS">>,
    <<"Copying 1.jpg">>,
    Join(<<"Error copying 1.jpg">>, << <<" disk full">> >>) }

NoEvent == <<"(none)">>

ImportCompleted == <<"Import completed successfully">>
ImportFailed(err) == <<"Import failed", Colon, " ">> \o err
Errors == { <<"disk full">> }

Destinations == {"/home/user/Pictures"}

\* a second folder the user can choose
OtherDestination == "/home/user/Videos"

(***************************************************************************)
(* Initial state: the component's declarations, with onMount's            *)
(* refreshDrives suspended on its list_removable_drives query.             *)
(***************************************************************************)
Init ==
  /\ selectedDrive = ""
  /\ mediaFiles = <<>>
  /\ selectedFiles = {}
  /\ isLoading = FALSE
  /\ thumbnailCache = EmptyMap
  /\ thumbnailLoadingStates = EmptyMap
  /\ thumbnailGenerationQueue = <<>>
  /\ isGeneratingThumbnails = FALSE
  /\ scans = EmptyBag
  /\ thumbnailCalls = EmptyBag
  /\ chains = EmptyBag
  /\ returned = [path |-> "", value |-> NoPayload]
  /\ hits = {}
  /\ resetPaths = {}
  /\ stalePaths = {}
  /\ nScans = 0
  /\ nDirect = 0
  /\ destination = ""
  /\ isImporting = FALSE
  /\ progress = <<>>
  /\ progressPercent = Num(0)
  /\ importPc = EmptyBag
  /\ listeners = 0
  /\ lastEvent = NoEvent
  /\ nImports = 0
  /\ importSent = {}
  /\ requested = EmptyBag
  /\ drives = <<>>
  /\ driveQueries = 1
  /\ unmounts = EmptyBag
  /\ unmounted = ""
  /\ nUnmounts = 0
  /\ nRefresh = 0
  /\ existingFiles = {}
  /\ checks = EmptyBag
  /\ file = NoFile
  /\ sourcePath = ""
  /\ blobUrl = NoBlob
  /\ previewIsLoading = TRUE
  /\ loads = {}
  /\ nLoads = 0
  /\ latestFailed = FALSE

(***************************************************************************)
(* The duplicate check and the history of the queue's requests.            *)
(***************************************************************************)
\* a check_files_exist_in_destination invocation: its arguments
Check(paths, dest) == [filePaths |-> paths, destinationPath |-> dest]

\* checkExistingFiles up to its await, as run by the reactive statement on destination
\* and mediaFiles: the invocations in flight afterwards
checkExistingFiles(dest, files, inFlight) ==
  IF dest = "" \/ Len(files) = 0 THEN inFlight
  ELSE inFlight (+) One(Check([i \in 1..Len(files) |-> files[i].path], dest))

\* the paths of the queue's get_file_thumbnail invocations added from one bag to another
Issued(before, after) ==
  { c.path : c \in { x \in BagToSet(after) :
                       x.by = "queue" /\ CopiesIn(x, after) > CopiesIn(x, before) } }

(***************************************************************************)
(* Scans.                                                                  *)
(***************************************************************************)
\* The device <select> (rendered when drives is not empty, one <option> per drive and
\* the empty one) changes selectedDrive; `$: if (selectedDrive) loadMediaFiles()`
\* then runs loadMediaFiles up to its await.
SelectDrive(d) ==
  /\ Len(drives) > 0
  /\ d \in MountPoints(drives) \cup {""}
  /\ d # selectedDrive
  /\ unmounted' = ""
  /\ UNCHANGED <<drives, driveQueries, unmounts, nUnmounts, nRefresh>>
  /\ selectedDrive' = d
  /\ IF d # ""
       THEN /\ nScans < MaxScans
            /\ isLoading' = TRUE
            /\ scans' = scans (+) One(d)
            /\ nScans' = nScans + 1
       ELSE UNCHANGED <<isLoading, scans, nScans>>
  /\ UNCHANGED <<importVars, dupVars>>
  /\ UNCHANGED <<mediaFiles, selectedFiles, thumbVars, returned, hits, resetPaths,
                 stalePaths, nDirect, requested>>
  /\ UNCHANGED previewVars

\* list_media_files resolves: the rest of loadMediaFiles' try block and its finally;
\* the assignment to mediaFiles then runs `$: if (destination && ...) checkExistingFiles()`
ListMediaFilesResolve(d) ==
  /\ BagIn(d, scans)
  /\ scans' = scans (-) One(d)
  /\ mediaFiles' = FilesOn(d)
  /\ selectedFiles' = {}
  /\ SetThumbState(initializeThumbnailGeneration(
                     [ThumbState EXCEPT !.calls = MarkStale(@)], FilesOn(d)))
  /\ resetPaths' = PathsOf(FilesOn(d))
  /\ stalePaths' = {}
  /\ isLoading' = FALSE
  /\ requested' = SetToBag(Issued(MarkStale(thumbnailCalls), thumbnailCalls'))
  /\ checks' = checkExistingFiles(destination, FilesOn(d), checks)
  /\ UNCHANGED <<importVars, deviceVars, existingFiles>>
  /\ UNCHANGED <<selectedDrive, returned, hits, nScans, nDirect>>
  /\ UNCHANGED previewVars

\* list_media_files rejects: the catch block and the finally (the reactive statement
\* on mediaFiles finds it empty and calls nothing)
ListMediaFilesReject(d) ==
  /\ BagIn(d, scans)
  /\ scans' = scans (-) One(d)
  /\ mediaFiles' = <<>>
  /\ isLoading' = FALSE
  /\ UNCHANGED <<importVars, deviceVars, dupVars, requested>>
  /\ UNCHANGED <<selectedDrive, selectedFiles, thumbVars, returned, hits, resetPaths,
                 stalePaths, nScans, nDirect>>
  /\ UNCHANGED previewVars

(***************************************************************************)
(* The thumbnail queue.                                                    *)
(***************************************************************************)
\* the 50 ms timer fires: processNextThumbnail runs again
TimerFires ==
  /\ BagIn(AwaitingTimer, chains)
  /\ SetThumbState(processNextThumbnail(
                     [ThumbState EXCEPT !.chains = @ (-) One(AwaitingTimer)]))
  /\ hits' = IF Len(thumbnailGenerationQueue) > 0
                  /\ Head(thumbnailGenerationQueue) \in DOMAIN thumbnailCache
               THEN hits \cup {"queue"} ELSE hits
  /\ requested' = requested (+) SetToBag(Issued(thumbnailCalls, thumbnailCalls'))
  /\ UNCHANGED <<importVars, deviceVars, dupVars>>
  /\ UNCHANGED <<selectedDrive, mediaFiles, selectedFiles, isLoading, scans,
                 returned, resetPaths, stalePaths, nScans, nDirect>>
  /\ UNCHANGED previewVars

\* a chain that sets no timer after its request: it ends there
ResumeChainStops(T, p) == [T EXCEPT !.chains = @ (-) One(AwaitingCall(p))]

\* the continuation of `await invoke(...)` in generateSingleThumbnail, then the rest
\* of processNextThumbnail up to its setTimeout
ResumeChain(T, p) ==
  [T EXCEPT !.chains = (@ (-) One(AwaitingCall(p))) (+) One(AwaitingTimer)]

\* a rejection without the try/catch: it leaves processNextThumbnail, which stops
onThumbnailErrorPropagates(T, p) == [T EXCEPT !.chains = @ (-) One(AwaitingCall(p))]

\* the catch block of generateSingleThumbnail: the error is absorbed there
onThumbnailError(T, p) == ResumeChain([T EXCEPT !.states = Put(@, p, "error")], p)

QueueCallResolves(c) ==
  /\ BagIn(c, thumbnailCalls)
  /\ c.by = "queue"
  /\ SetThumbState(ResumeChain(
       [ThumbState EXCEPT !.calls = @ (-) One(c),
                          !.cache = Put(@, c.path, Payload(c.path)),
                          !.states = Put(@, c.path, "loaded")], c.path))
  /\ stalePaths' = IF c.stale THEN stalePaths \cup {c.path} ELSE stalePaths
  /\ UNCHANGED <<importVars, deviceVars, dupVars, requested>>
  /\ UNCHANGED <<selectedDrive, mediaFiles, selectedFiles, isLoading, scans,
                 returned, hits, resetPaths, nScans, nDirect>>
  /\ UNCHANGED previewVars

QueueCallRejects(c) ==
  /\ BagIn(c, thumbnailCalls)
  /\ c.by = "queue"
  /\ SetThumbState(onThumbnailError([ThumbState EXCEPT !.calls = @ (-) One(c)], c.path))
  /\ stalePaths' = IF c.stale THEN stalePaths \cup {c.path} ELSE stalePaths
  /\ UNCHANGED <<importVars, deviceVars, dupVars, requested>>
  /\ UNCHANGED <<selectedDrive, mediaFiles, selectedFiles, isLoading, scans,
                 returned, hits, resetPaths, nScans, nDirect>>
  /\ UNCHANGED previewVars

(***************************************************************************)
(* Direct requests.                                                        *)
(***************************************************************************)
\* getThumbnail(filePath) up to its return or its await
GetThumbnail(p) ==
  /\ nDirect < MaxDirect
  /\ nDirect' = nDirect + 1
  /\ IF Cached(thumbnailCache, p)
       THEN /\ returned' = [path |-> p, value |-> thumbnailCache[p]]
            /\ UNCHANGED thumbnailCalls
       ELSE /\ thumbnailCalls' = thumbnailCalls (+) One(Call(p, "direct"))
            /\ UNCHANGED returned
  /\ hits' = IF p \in DOMAIN thumbnailCache THEN hits \cup {"direct"} ELSE hits
  /\ UNCHANGED <<importVars, deviceVars, dupVars, requested>>
  /\ UNCHANGED <<selectedDrive, mediaFiles, selectedFiles, isLoading, thumbnailCache,
                 thumbnailLoadingStates, thumbnailGenerationQueue,
                 isGeneratingThumbnails, scans, chains, resetPaths, stalePaths, nScans>>
  /\ UNCHANGED previewVars

DirectCallResolves(c) ==
  /\ BagIn(c, thumbnailCalls)
  /\ c.by = "direct"
  /\ thumbnailCalls' = thumbnailCalls (-) One(c)
  /\ thumbnailCache' = Put(thumbnailCache, c.path, Payload(c.path))
  /\ returned' = [path |-> c.path, value |-> Payload(c.path)]
  /\ stalePaths' = IF c.stale THEN stalePaths \cup {c.path} ELSE stalePaths
  /\ UNCHANGED <<importVars, deviceVars, dupVars, requested>>
  /\ UNCHANGED <<selectedDrive, mediaFiles, selectedFiles, isLoading,
                 thumbnailLoadingStates, thumbnailGenerationQueue,
                 isGeneratingThumbnails, scans, chains, hits, resetPaths, nScans,
                 nDirect>>
  /\ UNCHANGED previewVars

DirectCallRejects(c) ==
  /\ BagIn(c, thumbnailCalls)
  /\ c.by = "direct"
  /\ thumbnailCalls' = thumbnailCalls (-) One(c)
  /\ returned' = [path |-> c.path, value |-> NoPayload]
  /\ UNCHANGED <<importVars, deviceVars, dupVars, requested>>
  /\ UNCHANGED <<selectedDrive, mediaFiles, selectedFiles, isLoading, thumbnailCache,
                 thumbnailLoadingStates, thumbnailGenerationQueue,
                 isGeneratingThumbnails, scans, chains, hits, resetPaths, stalePaths,
                 nScans, nDirect>>
  /\ UNCHANGED previewVars


(***************************************************************************)
(* Selection, destination and the import.                                  *)
(***************************************************************************)
scanVars == <<selectedDrive, mediaFiles, isLoading, scans, nScans>>
historyVars == <<returned, hits, resetPaths, stalePaths, nDirect, requested>>

\* the file grid is shown when a drive is selected, no scan is running and there are files
GridShown == selectedDrive # "" /\ ~isLoading /\ Len(mediaFiles) > 0

selectAllFiles ==
  /\ GridShown
  /\ selectedFiles' = PathsOf(mediaFiles)
  /\ UNCHANGED <<scanVars, thumbVars, historyVars, importVars, deviceVars, dupVars>>
  /\ UNCHANGED previewVars

\* a file card of the grid is clicked
toggleFileSelection(p) ==
  /\ GridShown
  /\ p \in PathsOf(mediaFiles)
  /\ selectedFiles' = IF p \in selectedFiles THEN selectedFiles \ {p}
                                              ELSE selectedFiles \cup {p}
  /\ UNCHANGED <<scanVars, thumbVars, historyVars, importVars, deviceVars, dupVars>>
  /\ UNCHANGED previewVars

clearSelection ==
  /\ GridShown
  /\ selectedFiles' = {}
  /\ UNCHANGED <<scanVars, thumbVars, historyVars, importVars, deviceVars, dupVars>>
  /\ UNCHANGED previewVars

\* the destination input (bind:value), the folder dialog or loadSavedDestination
\* (the second step of onMount) sets destination, and
\* `$: if (destination && mediaFiles.length > 0) checkExistingFiles()` runs
SetDestination(d) ==
  /\ d # destination
  /\ BagCardinality(checks) < MaxChecks
  /\ destination' = d
  /\ checks' = checkExistingFiles(d, mediaFiles, checks)
  /\ UNCHANGED <<selectedFiles, scanVars, thumbVars, historyVars, deviceVars,
                 existingFiles, isImporting, progress, progressPercent, importPc,
                 listeners, lastEvent, nImports, importSent>>
  /\ UNCHANGED previewVars

\* the Copy Selected button without the test of isImporting
CopyDisabledIgnoresImport == Cardinality(selectedFiles) = 0 \/ destination = ""

\* disabled={selectedFiles.size === 0 || !destination || isImporting}
CopyDisabled == Cardinality(selectedFiles) = 0 \/ destination = "" \/ isImporting

\* the Copy Selected button is clicked: importSelectedFiles passes its own test of the
\* selection and the destination and runs up to `await listen(...)`
ImportStart ==
  /\ ~CopyDisabled
  /\ ~(Cardinality(selectedFiles) = 0 \/ destination = "")
  /\ nImports < MaxImports
  /\ nImports' = nImports + 1
  /\ isImporting' = TRUE
  /\ progressPercent' = Num(0)
  /\ progress' = <<>>
  /\ importPc' = importPc (+) One("listen")
  /\ lastEvent' = NoEvent
  /\ UNCHANGED <<selectedFiles, scanVars, thumbVars, historyVars, deviceVars, dupVars,
                 importSent, destination,
                 listeners>>
  /\ UNCHANGED previewVars

\* import_selected_files invoked although no listener was registered
ListenResolvesUnregistered ==
  /\ BagIn("listen", importPc)
  /\ importPc' = (importPc (-) One("listen")) (+) One("invoke")
  /\ importSent' = selectedFiles
  /\ UNCHANGED <<selectedFiles, scanVars, thumbVars, historyVars, deviceVars, dupVars,
                 destination, listeners,
                 isImporting, progress, progressPercent, lastEvent, nImports>>
  /\ UNCHANGED previewVars

\* listen() resolves: the listener is registered and import_selected_files is invoked
\* with Array.from(selectedFiles)
ListenResolves ==
  /\ BagIn("listen", importPc)
  /\ listeners' = listeners + 1
  /\ importPc' = (importPc (-) One("listen")) (+) One("invoke")
  /\ importSent' = selectedFiles
  /\ UNCHANGED <<selectedFiles, scanVars, thumbVars, historyVars, deviceVars, dupVars,
                 destination,
                 isImporting, progress, progressPercent, lastEvent, nImports>>
  /\ UNCHANGED previewVars

\* listen() rejects: the catch block and the finally
ListenRejects(err) ==
  /\ BagIn("listen", importPc)
  /\ progress' = ImportFailed(err)
  /\ isImporting' = FALSE
  /\ importPc' = importPc (-) One("listen")
  /\ UNCHANGED <<selectedFiles, scanVars, thumbVars, historyVars, deviceVars, dupVars,
                 importSent, destination,
                 progressPercent, listeners, lastEvent, nImports>>
  /\ UNCHANGED previewVars

\* the backend emits an import-progress event during the transfer; every registered
\* listener runs the same handler on it, and without a listener the event is lost
ImportProgressEvent(message) ==
  /\ BagIn("invoke", importPc)
  /\ LET after == IF listeners > 0
                    THEN OnImportProgress(message, progress, progressPercent)
                    ELSE <<progress, progressPercent>>
     IN /\ progress' = after[1]
        /\ progressPercent' = after[2]
  /\ lastEvent' = message
  /\ UNCHANGED <<selectedFiles, scanVars, thumbVars, historyVars, deviceVars, dupVars,
                 importSent, destination,
                 isImporting, importPc, listeners, nImports>>
  /\ UNCHANGED previewVars

\* import_selected_files resolves: the end of the try block and the finally
ImportResolves ==
  /\ BagIn("invoke", importPc)
  /\ progress' = ImportCompleted
  /\ listeners' = listeners - 1
  /\ isImporting' = FALSE
  /\ importPc' = importPc (-) One("invoke")
  /\ UNCHANGED <<selectedFiles, scanVars, thumbVars, historyVars, deviceVars, dupVars,
                 importSent, destination,
                 progressPercent, lastEvent, nImports>>
  /\ UNCHANGED previewVars

\* a rejection that leaves the status text as it was
ImportRejectsSilently(err) ==
  /\ BagIn("invoke", importPc)
  /\ isImporting' = FALSE
  /\ importPc' = importPc (-) One("invoke")
  /\ UNCHANGED <<selectedFiles, scanVars, thumbVars, historyVars, deviceVars, dupVars,
                 importSent, destination, progress,
                 progressPercent, listeners, lastEvent, nImports>>
  /\ UNCHANGED previewVars

\* import_selected_files rejects: the catch block (unlisten is skipped) and the finally
ImportRejects(err) ==
  /\ BagIn("invoke", importPc)
  /\ progress' = ImportFailed(err)
  /\ isImporting' = FALSE
  /\ importPc' = importPc (-) One("invoke")
  /\ UNCHANGED <<selectedFiles, scanVars, thumbVars, historyVars, deviceVars, dupVars,
                 importSent, destination,
                 progressPercent, listeners, lastEvent, nImports>>
  /\ UNCHANGED previewVars

(***************************************************************************)
(* The duplicate check's responses.                                        *)
(***************************************************************************)
\* the files the backend finds already present in a destination (same name and size)
ExistingIn(dest) ==
  IF dest = "/home/user/Pictures" THEN {"/mnt/A/1.jpg", "/mnt/A/2.mp4"}
  ELSE IF dest = OtherDestination THEN {"/mnt/A/2.mp4"}
  ELSE {}

\* check_files_exist_in_destination resolves with one boolean per path sent
CheckResponse(c) ==
  [i \in 1..Len(c.filePaths) |-> c.filePaths[i] \in ExistingIn(c.destinationPath)]

\* the loop over results: existingFiles.add(mediaFiles[i].path) for each true result;
\* reading .path of a missing mediaFiles[i] throws, and the catch block ends the loop
RECURSIVE Flagged(_, _, _, _)
Flagged(results, files, i, acc) ==
  IF i > Len(results) THEN acc
  ELSE IF ~results[i] THEN Flagged(results, files, i + 1, acc)
  ELSE IF i > Len(files) THEN acc
  ELSE Flagged(results, files, i + 1, acc \cup {files[i].path})

\* the response applied to the paths that were sent
FlaggedOfSent(c) ==
  { c.filePaths[i] : i \in { j \in 1..Len(c.filePaths) : CheckResponse(c)[j] } }

\* check_files_exist_in_destination resolves: the rest of checkExistingFiles
CheckResolves(c) ==
  /\ BagIn(c, checks)
  /\ checks' = checks (-) One(c)
  /\ existingFiles' = Flagged(CheckResponse(c), mediaFiles, 1, {})
  /\ UNCHANGED <<selectedFiles, scanVars, thumbVars, historyVars, importVars, deviceVars>>
  /\ UNCHANGED previewVars

\* check_files_exist_in_destination rejects: the catch block only logs
CheckRejects(c) ==
  /\ BagIn(c, checks)
  /\ checks' = checks (-) One(c)
  /\ UNCHANGED <<selectedFiles, scanVars, thumbVars, historyVars, importVars, deviceVars,
                 existingFiles>>
  /\ UNCHANGED previewVars

(***************************************************************************)
(* Devices: the drive list and unmounting.                                 *)
(***************************************************************************)
\* the Refresh button: refreshDrives up to its await
RefreshDrives ==
  /\ nRefresh < MaxRefresh
  /\ nRefresh' = nRefresh + 1
  /\ driveQueries' = driveQueries + 1
  /\ UNCHANGED <<selectedFiles, scanVars, thumbVars, historyVars, importVars, dupVars,
                 drives, unmounts, unmounted, nUnmounts>>
  /\ UNCHANGED previewVars

\* list_removable_drives resolves: drives is assigned the result
RefreshDrivesResolves(list) ==
  /\ driveQueries > 0
  /\ driveQueries' = driveQueries - 1
  /\ drives' = list
  /\ UNCHANGED <<selectedFiles, scanVars, thumbVars, historyVars, importVars, dupVars,
                 unmounts, unmounted, nUnmounts, nRefresh>>
  /\ UNCHANGED previewVars

\* a failed query that empties the list
RefreshDrivesRejectsClears ==
  /\ driveQueries > 0
  /\ driveQueries' = driveQueries - 1
  /\ drives' = <<>>
  /\ UNCHANGED <<selectedFiles, scanVars, thumbVars, historyVars, importVars, dupVars,
                 unmounts, unmounted, nUnmounts, nRefresh>>
  /\ UNCHANGED previewVars

\* list_removable_drives rejects: the catch block only logs
RefreshDrivesRejects ==
  /\ driveQueries > 0
  /\ driveQueries' = driveQueries - 1
  /\ UNCHANGED <<selectedFiles, scanVars, thumbVars, historyVars, importVars, dupVars,
                 drives, unmounts, unmounted, nUnmounts, nRefresh>>
  /\ UNCHANGED previewVars

\* the Unmount Device button (shown when a drive is selected): unmountDrive up to its await
UnmountStart ==
  /\ selectedDrive # ""
  /\ nUnmounts < MaxUnmounts
  /\ nUnmounts' = nUnmounts + 1
  /\ unmounts' = unmounts (+) One(selectedDrive)
  /\ UNCHANGED <<selectedFiles, scanVars, thumbVars, historyVars, importVars, dupVars,
                 drives, driveQueries, unmounted, nRefresh>>
  /\ UNCHANGED previewVars

\* an unmount that does not query the devices again
UnmountResolvesNoQuery(m) ==
  /\ BagIn(m, unmounts)
  /\ unmounts' = unmounts (-) One(m)
  /\ mediaFiles' = <<>>
  /\ selectedFiles' = {}
  /\ selectedDrive' = ""
  /\ unmounted' = m
  /\ UNCHANGED <<isLoading, scans, nScans, thumbVars, historyVars, importVars, dupVars,
                 drives, driveQueries, nUnmounts, nRefresh>>
  /\ UNCHANGED previewVars

\* unmount_drive resolves: the rest of the try block up to the await in refreshDrives
\* (the reactive statements find selectedDrive and mediaFiles empty and call nothing)
UnmountResolves(m) ==
  /\ BagIn(m, unmounts)
  /\ unmounts' = unmounts (-) One(m)
  /\ mediaFiles' = <<>>
  /\ selectedFiles' = {}
  /\ selectedDrive' = ""
  /\ unmounted' = m
  /\ driveQueries' = driveQueries + 1
  /\ UNCHANGED <<isLoading, scans, nScans, thumbVars, historyVars, importVars, dupVars,
                 drives, nUnmounts, nRefresh>>
  /\ UNCHANGED previewVars

UnmountFailed(err) == <<"Unmount failed", Colon, " ">> \o err
UnmountErrors == { <<"target is busy">> }

\* a failed unmount handled like a successful one
UnmountRejectsClears(m, err) ==
  /\ BagIn(m, unmounts)
  /\ unmounts' = unmounts (-) One(m)
  /\ progress' = UnmountFailed(err)
  /\ mediaFiles' = <<>>
  /\ selectedFiles' = {}
  /\ selectedDrive' = ""
  /\ UNCHANGED <<isLoading, scans, nScans, thumbVars, historyVars, dupVars,
                 destination, isImporting, progressPercent, importPc, listeners,
                 lastEvent, nImports, importSent, drives, driveQueries, unmounted,
                 nUnmounts, nRefresh>>
  /\ UNCHANGED previewVars

\* unmount_drive rejects: the catch block
UnmountRejects(m, err) ==
  /\ BagIn(m, unmounts)
  /\ unmounts' = unmounts (-) One(m)
  /\ progress' = UnmountFailed(err)
  /\ UNCHANGED <<selectedFiles, scanVars, thumbVars, historyVars, dupVars,
                 destination, isImporting, progressPercent, importPc, listeners,
                 lastEvent, nImports, importSent, drives, driveQueries, unmounted,
                 nUnmounts, nRefresh>>
  /\ UNCHANGED previewVars

AllCalls == [path : UNION {PathsOf(FilesOn(d)) : d \in Drives},
             by : {"queue", "direct"}, stale : BOOLEAN]

AllChecks == { Check([i \in 1..Len(FilesOn(d)) |-> FilesOn(d)[i].path], dest) :
                 d \in Drives, dest \in Destinations \cup {OtherDestination} }

(***************************************************************************)
(* The media preview (MediaPreview.svelte).                                *)
(***************************************************************************)
\* String.prototype.toLowerCase on the extensions that occur
toLowerCase(e) ==
  CASE e = "JPG" -> "jpg"
    [] e = "JPEG" -> "jpeg"
    [] e = "MP4" -> "mp4"
    [] OTHER -> e

\* the MIME type loadMediaBlob gives the Blob, from the file prop
Mime(f) ==
  LET ext == toLowerCase(f.extension) IN
  IF f.is_image
    THEN CASE ext \in {"jpg", "jpeg"} -> "image/jpeg"
           [] ext = "png" -> "image/png"
           [] ext = "gif" -> "image/gif"
           [] ext = "webp" -> "image/webp"
           [] OTHER -> "image/*"
    ELSE IF f.is_video
      THEN CASE ext = "mp4" -> "video/mp4"
             [] ext = "webm" -> "video/webm"
             [] ext = "mov" -> "video/quicktime"
             [] OTHER -> "video/*"
      ELSE ""

\* new Blob([data], {type}) and its object URL: the temp file whose bytes it holds
\* and its MIME type
Blob(name, mime) == [data |-> name, type |-> mime]

\* the blob that shows file f
BlobFor(f) == Blob(f.name, Mime(f))

\* a suspended loadMediaBlob run: which call it is, the await it waits at
\* ("copy_to_temp" or "readFile") and the argument that invocation was given
Load(id, stage, arg) == [id |-> id, stage |-> stage, arg |-> arg]

\* loadMediaBlob up to its first await: the runs suspended afterwards
loadMediaBlob(src, id, suspended) ==
  IF src = "" THEN suspended
  ELSE suspended \cup {Load(id, "copy_to_temp", src)}

\* The parent gives the component a file and its sourcePath;
\* `$: if (file && sourcePath) loadMediaBlob()` then runs loadMediaBlob up to its await.
ShowPreview(f) ==
  /\ nLoads < MaxLoads
  /\ file' = f
  /\ sourcePath' = f.path
  /\ previewIsLoading' = TRUE
  /\ loads' = loadMediaBlob(f.path, nLoads + 1, loads)
  /\ nLoads' = nLoads + 1
  /\ latestFailed' = FALSE
  /\ UNCHANGED <<blobUrl, pageVars>>

\* copy_to_temp resolves: the run goes on to readFile(file?.name, ...), with the file
\* prop as it is by now
CopyToTempResolves(l) ==
  /\ l \in loads
  /\ l.stage = "copy_to_temp"
  /\ loads' = (loads \ {l}) \cup {Load(l.id, "readFile", file.name)}
  /\ UNCHANGED <<file, sourcePath, blobUrl, previewIsLoading, nLoads, latestFailed,
                 pageVars>>

\* readFile resolves: the rest of the try block (the MIME type from the file prop as it
\* is by now) and the finally
ReadFileResolves(l) ==
  /\ l \in loads
  /\ l.stage = "readFile"
  /\ loads' = loads \ {l}
  /\ blobUrl' = Blob(l.arg, Mime(file))
  /\ previewIsLoading' = FALSE
  /\ UNCHANGED <<file, sourcePath, nLoads, latestFailed, pageVars>>

\* copy_to_temp or readFile rejects: the catch block and the finally
LoadRejects(l) ==
  /\ l \in loads
  /\ loads' = loads \ {l}
  /\ blobUrl' = NoBlob
  /\ previewIsLoading' = FALSE
  /\ latestFailed' = (l.id = nLoads \/ latestFailed)
  /\ UNCHANGED <<file, sourcePath, nLoads, pageVars>>

\* every run loadMediaBlob can have suspended
AllLoads ==
  { Load(id, "copy_to_temp", f.path) : id \in 1..MaxLoads, f \in PreviewFiles }
    \cup { Load(id, "readFile", f.name) : id \in 1..MaxLoads, f \in PreviewFiles }


Next ==
  \/ RefreshDrivesResolves(BothDrives)
  \/ \E d \in Drives \cup {""} : SelectDrive(d)
  \/ \E d \in Drives : ListMediaFilesResolve(d)
  \/ \E d \in Drives : ListMediaFilesReject(d)
  \/ TimerFires
  \/ \E c \in AllCalls : QueueCallResolves(c)
  \/ \E c \in AllCalls : QueueCallRejects(c)
  \/ \E p \in PathsOf(mediaFiles) : GetThumbnail(p)
  \/ \E c \in AllCalls : DirectCallResolves(c)
  \/ \E c \in AllCalls : DirectCallRejects(c)

Spec == Init /\ [][Next]_vars

\* The import with its progress stream (one scan result, no thumbnail replies).
NextImport ==
  \/ RefreshDrivesResolves(BothDrives)
  \/ SelectDrive("/mnt/A")
  \/ ListMediaFilesResolve("/mnt/A")
  \/ selectAllFiles
  \/ \E d \in Destinations : SetDestination(d)
  \/ ImportStart
  \/ ListenResolves
  \/ \E e \in Errors : ListenRejects(e)
  \/ \E m \in Messages : ImportProgressEvent(m)
  \/ ImportResolves
  \/ \E e \in Errors : ImportRejects(e)

SpecImport == Init /\ [][NextImport]_vars

\* The thumbnail queue alone: scans and the queue's requests.
NextQueue ==
  \/ RefreshDrivesResolves(BothDrives)
  \/ \E d \in Drives \cup {""} : SelectDrive(d)
  \/ \E d \in Drives : ListMediaFilesResolve(d)
  \/ \E d \in Drives : ListMediaFilesReject(d)
  \/ TimerFires
  \/ \E c \in AllCalls : QueueCallResolves(c)
  \/ \E c \in AllCalls : QueueCallRejects(c)

SpecQueue == Init /\ [][NextQueue]_vars

\* every invocation in flight eventually resolves or rejects, and the 50 ms timers fire
BackendResponds ==
  /\ WF_vars(\E d \in Drives : ListMediaFilesResolve(d) \/ ListMediaFilesReject(d))
  /\ WF_vars(\E c \in AllCalls : QueueCallResolves(c) \/ QueueCallRejects(c))
  /\ WF_vars(TimerFires)

SpecQueueFair == SpecQueue /\ BackendResponds

\* Unmounting while the thumbnail queue is at work.
NextUnmountQueue ==
  \/ RefreshDrivesResolves(BothDrives)
  \/ \E d \in Drives : SelectDrive(d)
  \/ \E d \in Drives : ListMediaFilesResolve(d)
  \/ UnmountStart
  \/ \E m \in Drives : UnmountResolves(m)
  \/ TimerFires
  \/ \E c \in AllCalls : QueueCallResolves(c)

SpecUnmountQueue == Init /\ [][NextUnmountQueue]_vars

\* a camera and a device without media: their mount points, and what
\* list_removable_drives can resolve with as they are plugged in and removed
Devices == {"/mnt/A", EmptyDrive}
DeviceLists == { <<>>, <<DriveA, DriveE>>, <<DriveE>> }

\* Devices, scans, unmounting and the selection (no destination, no thumbnail replies).
NextDevice ==
  \/ RefreshDrives
  \/ \E l \in DeviceLists : RefreshDrivesResolves(l)
  \/ RefreshDrivesRejects
  \/ \E d \in Devices \cup {""} : SelectDrive(d)
  \/ \E d \in Devices : ListMediaFilesResolve(d)
  \/ \E d \in Devices : ListMediaFilesReject(d)
  \/ UnmountStart
  \/ \E m \in Devices : UnmountResolves(m)
  \/ \E m \in Devices, e \in UnmountErrors : UnmountRejects(m, e)
  \/ \E p \in PathsOf(mediaFiles) : toggleFileSelection(p)
  \/ selectAllFiles
  \/ clearSelection

SpecDevice == Init /\ [][NextDevice]_vars

\* The duplicate check against scans, unmounting and the start of the import
\* (no thumbnail replies, no progress events).
NextDuplicates ==
  \/ RefreshDrivesResolves(BothDrives)
  \/ \E d \in Drives : SelectDrive(d)
  \/ \E d \in Drives : ListMediaFilesResolve(d)
  \/ UnmountStart
  \/ \E m \in Drives : UnmountResolves(m)
  \/ selectAllFiles
  \/ \E d \in Destinations \cup {OtherDestination} : SetDestination(d)
  \/ \E c \in AllChecks : CheckResolves(c)
  \/ \E c \in AllChecks : CheckRejects(c)
  \/ ImportStart
  \/ ListenResolves
  \/ ImportResolves

SpecDuplicates == Init /\ [][NextDuplicates]_vars

\* the preview alone: the parent shows one file after another
NextPreview ==
  \/ \E f \in PreviewFiles : ShowPreview(f)
  \/ \E l \in AllLoads : CopyToTempResolves(l)
  \/ \E l \in AllLoads : ReadFileResolves(l)
  \/ \E l \in AllLoads : LoadRejects(l)

SpecPreview == Init /\ [][NextPreview]_vars

(***************************************************************************)
(* Properties.                                                             *)
(***************************************************************************)
AllPaths == UNION {PathsOf(FilesOn(d)) : d \in Drives}

StateIn(states, p) == IF p \in DOMAIN states THEN states[p] ELSE "pending"

\* number of get_file_thumbnail invocations in flight that satisfy Test
InFlight(Test(_)) ==
  LET some == {c \in BagToSet(thumbnailCalls) : Test(c)}
  IN BagCardinality([c \in some |-> thumbnailCalls[c]])

\* a step that runs initializeThumbnailGeneration
IsReset == \E d \in Drives : ListMediaFilesResolve(d)

\* C1: for every path, at most one get_file_thumbnail invocation (queue-driven or
\* direct) is in flight.
C1_SingleFlightPerPath ==
  \A p \in AllPaths : InFlight(LAMBDA c : c.path = p) <= 1

\* C2: at most one processNextThumbnail chain is active and at most one queue-driven
\* get_file_thumbnail invocation is in flight, also when a scan resets the queue
\* while the previous chain is still suspended.
C2_OneQueueChain ==
  /\ BagCardinality(chains) <= 1
  /\ InFlight(LAMBDA c : c.by = "queue") <= 1

\* a scan has reset the queue while the chain awaits a request issued before the reset
C2_ResetDuringChain ==
  /\ Len(thumbnailGenerationQueue) > 0
  /\ BagCardinality(chains) = 1
  /\ InFlight(LAMBDA c : c.by = "queue" /\ c.stale) = 1

\* C3: every change of a path's thumbnail state is pending -> loading,
\* loading -> loaded, loading -> error, or a reset to pending by
\* initializeThumbnailGeneration (which may start loading the path at once).
C3_StateMachine ==
  [][\A p \in AllPaths :
       LET old == StateIn(thumbnailLoadingStates, p)
           new == StateIn(thumbnailLoadingStates', p)
       IN \/ old = new
          \/ old = "pending" /\ new = "loading"
          \/ old = "loading" /\ new \in {"loaded", "error"}
          \/ IsReset /\ new \in {"pending", "loading"}]_vars

\* C4: a path in state loaded or error changes state only in a step that runs
\* initializeThumbnailGeneration.
C4_TerminalStates ==
  [][\A p \in AllPaths :
       LET old == StateIn(thumbnailLoadingStates, p)
           new == StateIn(thumbnailLoadingStates', p)
       IN old \in {"loaded", "error"} /\ new # old => IsReset]_vars

\* C5: nothing in thumbnailCache or thumbnailLoadingStates was written by a request
\* issued before the latest reset, and every key of both maps is a path of the scan
\* that did the latest reset.
C5_ScanClearsEntries ==
  /\ stalePaths = {}
  /\ DOMAIN thumbnailCache \subseteq resetPaths
  /\ DOMAIN thumbnailLoadingStates \subseteq resetPaths

\* C6: a path in state loaded has a payload in thumbnailCache and a path in state
\* error has none.
C6_PayloadInvariant ==
  \A p \in AllPaths :
    /\ StateIn(thumbnailLoadingStates, p) = "loaded" => p \in DOMAIN thumbnailCache
    /\ StateIn(thumbnailLoadingStates, p) = "error" => p \notin DOMAIN thumbnailCache

\* C7: on a cache hit neither getThumbnail nor the queue step (generateSingleThumbnail)
\* invokes get_file_thumbnail or changes thumbnailCache or thumbnailLoadingStates, and
\* getThumbnail returns the stored payload.
C7_CacheHitNoIO ==
  [][/\ \A p \in AllPaths :
          p \in DOMAIN thumbnailCache /\ GetThumbnail(p) =>
            /\ returned' = [path |-> p, value |-> thumbnailCache[p]]
            /\ UNCHANGED <<thumbnailCache, thumbnailLoadingStates, thumbnailCalls>>
     /\ ( /\ TimerFires
          /\ Len(thumbnailGenerationQueue) > 0
          /\ Head(thumbnailGenerationQueue) \in DOMAIN thumbnailCache )
        => UNCHANGED <<thumbnailCache, thumbnailLoadingStates, thumbnailCalls>>]_vars

\* both getThumbnail and the queue step have had a cache hit
C7_BothHit == hits = {"queue", "direct"}

\* C8: when a queue-driven get_file_thumbnail fails for path p, only p's state changes
\* (to error); the cache, the queue and every other state are unchanged, the chain
\* stays alive (it waits for its timer), and the next timer step requests the next
\* queued path that is not cached.
C8_ErrorIsolation ==
  [][/\ \A c \in AllCalls :
          QueueCallRejects(c) =>
            /\ thumbnailLoadingStates' = Put(thumbnailLoadingStates, c.path, "error")
            /\ UNCHANGED <<thumbnailCache, thumbnailGenerationQueue,
                           isGeneratingThumbnails>>
            /\ thumbnailCalls' = thumbnailCalls (-) SetToBag({c})
            /\ BagIn(AwaitingTimer, chains')
     /\ ( /\ TimerFires
          /\ Len(thumbnailGenerationQueue) > 0
          /\ Head(thumbnailGenerationQueue) \notin DOMAIN thumbnailCache )
        => BagIn(Call(Head(thumbnailGenerationQueue), "queue"), thumbnailCalls')]_vars

\* a request of the current scan failed and the queue has requested another path
C8_FailedThenNext ==
  \E p \in AllPaths :
    /\ p \notin stalePaths
    /\ StateIn(thumbnailLoadingStates, p) = "error"
    /\ InFlight(LAMBDA c : c.by = "queue" /\ ~c.stale /\ c.path # p) = 1

\* number of ':' in a text
Colons(m) == Cardinality({i \in 1..Len(m) : m[i] = Colon})

\* PROGRESS_BYTES:<a>:<b> or PROGRESS:<a>:<b>: one of the prefixes and exactly three
\* colon-separated parts
ExactForm(m) ==
  /\ Len(m) > 0
  /\ \/ m[1] = "PROGRESS" /\ Len(m) > 1 /\ m[2] = Colon
     \/ m[1] = "PROGRESS" /\ Len(m) > 2 /\ m[2] = "_BYTES" /\ m[3] = Colon
  /\ Colons(m) = 2

\* C9: during a transfer, an event that is not exactly of one of the two structured
\* forms becomes the status text.
C9_UnrecognizedIsStatus ==
  BagIn("invoke", importPc) /\ lastEvent # NoEvent /\ ~ExactForm(lastEvent)
    => progress = lastEvent

\* a text that begins with neither prefix
IsStatusText(m) ==
  ~(Len(m) > 1 /\ m[1] = "PROGRESS" /\ m[2] \in {Colon, "_BYTES"})

\* the step handles the import-progress event m
Handled(m) == lastEvent' = m /\ ImportProgressEvent(m)

C11_ResponseMatchesSent ==
  [][\A c \in AllChecks : CheckResolves(c) => existingFiles' = FlaggedOfSent(c)]_vars

\* C12: the list that importSelectedFiles passes to import_selected_files never
\* contains a path that is flagged in existingFiles at that moment.
C12_NoFlaggedPathSent ==
  [][ListenResolves => importSent' \cap existingFiles' = {}]_vars

\* C13: when unmount_drive rejects, unmountDrive leaves selectedDrive, mediaFiles,
\* selectedFiles and drives unchanged, issues no device query, and sets progress to
\* 'Unmount failed: <error>'.
C13_FailedUnmountKeepsState ==
  [][\A m \in Devices, e \in UnmountErrors :
       UnmountRejects(m, e)
         => /\ UNCHANGED <<selectedDrive, mediaFiles, selectedFiles, drives, driveQueries>>
            /\ progress' = UnmountFailed(e)]_vars

\* a failed unmount is reported while the device, its files and a selection are still there
C13_FailedWithSelection ==
  /\ \E e \in UnmountErrors : progress = UnmountFailed(e)
  /\ selectedDrive # ""
  /\ selectedFiles # {}
  /\ selectedFiles \subseteq PathsOf(mediaFiles)
  /\ selectedDrive \in MountPoints(drives)

\* C14: every successful unmount_drive is followed, within unmountDrive, by a
\* list_removable_drives query, and when the query is issued selectedDrive is '',
\* mediaFiles is empty and selectedFiles is empty.
C14_UnmountThenQuery ==
  [][\A m \in Devices :
       UnmountResolves(m)
         => /\ driveQueries' = driveQueries + 1
            /\ selectedDrive' = ""
            /\ mediaFiles' = <<>>
            /\ selectedFiles' = {}]_vars

\* a device whose scan had listed files was unmounted and the query is in flight
C14_QueryAfterUnmount ==
  /\ unmounted # ""
  /\ driveQueries > 0
  /\ selectedDrive = ""
  /\ mediaFiles = <<>>
  /\ resetPaths # {}

\* C15: drives changes only when a list_removable_drives query succeeds, and then it
\* is replaced by the returned list; a failed query and every other operation leave
\* it unchanged.
C15_DrivesFrame ==
  [][/\ drives' # drives => \E l \in DeviceLists : RefreshDrivesResolves(l)
     /\ \A l \in DeviceLists : RefreshDrivesResolves(l) => drives' = l
     /\ RefreshDrivesRejects => drives' = drives]_vars

\* the list that held /mnt/A (its scan has run) was replaced by one that does not
C15_ListReplaced ==
  /\ drives = <<DriveE>>
  /\ resetPaths = PathsOf(FilesOn("/mnt/A"))

\* C16: the state reached when list_media_files rejects differs from the state
\* reached when the same scan succeeds with zero media files.
C16_FailureIsVisible ==
  [][\A d \in Devices :
       (FilesOn(d) = <<>> /\ ListMediaFilesReject(d)) => ~ListMediaFilesResolve(d)]_vars

\* C19: whenever no list_media_files invocation is in flight, mediaFiles is the
\* result of the latest scan of the selected drive (its files, or none when that scan
\* failed), and it is empty when selectedDrive is '' after an unmount.
C19_ScanMatchesSelection ==
  scans = EmptyBag
    => IF selectedDrive = ""
         THEN unmounted # "" => mediaFiles = <<>>
         ELSE mediaFiles \in {FilesOn(selectedDrive), <<>>}

\* C20: every path in selectedFiles is the path of a file in the current mediaFiles.
C20_SelectionWithinScan == selectedFiles \subseteq PathsOf(mediaFiles)

\* every image or video file of mediaFiles has reached 'loaded' or 'error'
AllSettled ==
  \A f \in SeqRange(ThumbPaths(mediaFiles)) :
    StateIn(thumbnailLoadingStates, f.path) \in {"loaded", "error"}

\* C17: provided every get_file_thumbnail invocation settles and the timers fire,
\* after the last scan every image or video file in mediaFiles eventually reaches
\* 'loaded' or 'error' and stays there, also when the scan arrived while an earlier
\* chain was still running.
C17_EventuallySettled == <>[]AllSettled

\* the files of a scan that arrived during an earlier chain have all settled
C17_SettledAfterRescan ==
  /\ AllSettled
  /\ Len(ThumbPaths(mediaFiles)) > 1
  /\ stalePaths # {}
  /\ thumbnailCalls = EmptyBag
  /\ chains = EmptyBag
  /\ ~isGeneratingThumbnails

\* the image and video paths of all devices
ThumbPathsOfAll == UNION { PathsOf(ThumbPaths(FilesOn(d))) : d \in Drives }

\* C18: between two consecutive resets the queue issues get_file_thumbnail at most once
\* for each path: a path is never requested twice, a file that is neither image nor
\* video is never requested, and a path that has reached 'loaded' or 'error' is not
\* requested again.
C18_OncePerPath ==
  [][\A p \in AllPaths :
       /\ CopiesIn(p, requested') <= 1
       /\ BagIn(p, requested') => p \in ThumbPathsOfAll
       /\ CopiesIn(p, requested') > CopiesIn(p, requested) /\ TimerFires
            => StateIn(thumbnailLoadingStates, p) \notin {"loaded", "error"}]_vars

\* C21: isImporting is true exactly while a run of importSelectedFiles is suspended
\* (from its start until import_selected_files has settled), the Copy button starts
\* nothing while isImporting is true, with an empty selection or an empty destination,
\* and at most one run, hence at most one invocation, exists at any time.
C21_OneTransferAtATime ==
  /\ [](/\ BagCardinality(importPc) <= 1
        /\ isImporting <=> BagCardinality(importPc) = 1)
  /\ [][ImportStart => ~isImporting /\ selectedFiles # {} /\ destination # ""]_vars

\* a second import is running after the first one has finished
C21_SecondImportRunning ==
  /\ nImports = 2
  /\ isImporting
  /\ BagIn("invoke", importPc)

\* C22: when importSelectedFiles finishes isImporting is false; progress is 'Import
\* completed successfully' when import_selected_files resolved and 'Import failed:
\* <error>' when the listener registration or the invocation rejected.
C22_OutcomeSurfaced ==
  [][/\ ImportResolves => ~isImporting' /\ progress' = ImportCompleted
     /\ \A e \in Errors :
          ListenRejects(e) \/ ImportRejects(e)
            => ~isImporting' /\ progress' = ImportFailed(e)
     /\ (progress' = ImportCompleted /\ progress # ImportCompleted) => ImportResolves]_vars

\* an import that failed after it had reported progress
C22_FailedAfterProgress ==
  /\ \E e \in Errors : progress = ImportFailed(e)
  /\ ~isImporting
  /\ lastEvent # NoEvent

\* C23: the listener is registered before import_selected_files is invoked, so a
\* listener is registered whenever an invocation is in flight and no event is lost;
\* when the registration fails no transfer is started.
C23_ListenerBeforeTransfer ==
  /\ [](BagIn("invoke", importPc) => listeners >= 1)
  /\ [][\A e \in Errors : ListenRejects(e) => ~BagIn("invoke", importPc')]_vars

\* a progress event of the transfer has been handled
C23_EventHandled ==
  /\ BagIn("invoke", importPc)
  /\ lastEvent # NoEvent
  /\ progress = lastEvent

\* C24: whenever no import is running no import-progress listener is registered, and
\* during a transfer exactly one is.
C24_NoListenerLeak ==
  /\ importPc = EmptyBag => listeners = 0
  /\ BagIn("invoke", importPc) => listeners = 1

\* a JavaScript number that is defined and lies between 0 and 100
InRange(x) == IsFinite(x) /\ x[1] >= 0 /\ x[1] <= 100 * x[2]

\* C26: after a structured message PROGRESS_BYTES:<a>:<b> or PROGRESS:<a>:<b> with
\* 0 <= a <= b, progressPercent is a number between 0 and 100, and it is 0 when b = 0.
C26_PercentInRange ==
  [][\A c \in Counts :
       (/\ c[1] <= c[2]
        /\ Handled(BytesMessage(c[1], c[2])) \/ Handled(FilesMessage(c[1], c[2])))
         => /\ InRange(progressPercent')
            /\ c[2] = 0 => progressPercent' = Num(0)]_vars

\* x <= y on JavaScript numbers (false when either is NaN)
JsLeq(x, y) ==
  /\ ~IsNaN(x) /\ ~IsNaN(y)
  /\ IF IsFinite(x) /\ IsFinite(y) THEN x[1] * y[2] <= y[1] * x[2]
     ELSE x = y \/ x = NegInfinity \/ y = Infinity

\* the event m may follow the event prev in a transfer whose file counter and whose
\* byte counter of the current file never decrease: two events of one kind carry the
\* same total and a count that did not decrease, and events of the two kinds alternate
\* freely
Follows(prev, m) ==
  \E c, e \in Counts :
    /\ c[1] <= c[2] /\ c[2] > 0
    /\ e[1] <= e[2] /\ e[2] > 0
    /\ \/ prev = BytesMessage(c[1], c[2]) /\ m = FilesMessage(e[1], e[2])
       \/ prev = FilesMessage(c[1], c[2]) /\ m = BytesMessage(e[1], e[2])
       \/ /\ prev = BytesMessage(c[1], c[2]) /\ m = BytesMessage(e[1], e[2])
          /\ c[2] = e[2] /\ c[1] <= e[1]
       \/ /\ prev = FilesMessage(c[1], c[2]) /\ m = FilesMessage(e[1], e[2])
          /\ c[2] = e[2] /\ c[1] <= e[1]

\* C25: for a transfer whose events arrive in the order the engine guarantees (file
\* index non-decreasing, bytes of the current file non-decreasing), progressPercent
\* never decreases from one event to the next.
C25_ProgressNeverDecreases ==
  [][\A m \in Messages :
       Handled(m) /\ Follows(lastEvent, m) => JsLeq(progressPercent, progressPercent')]_vars

\* C27: after unmountDrive has succeeded, no get_file_thumbnail invocation is issued
\* for a path of the unmounted device; the paths left in thumbnailGenerationQueue
\* are never requested.
C27_NoWorkForRemovedDevice ==
  [][unmounted # ""
       => Issued(thumbnailCalls, thumbnailCalls') \cap PathsOf(FilesOn(unmounted)) = {}]_vars

\* C28: whenever no check_files_exist_in_destination invocation is in flight,
\* existingFiles is the answer for the current destination and the current mediaFiles,
\* and it is empty once mediaFiles is empty.
C28_FlagsMatchDestination ==
  checks = EmptyBag
    => /\ Len(mediaFiles) = 0 => existingFiles = {}
       /\ Len(mediaFiles) > 0 /\ destination # ""
            => existingFiles = PathsOf(mediaFiles) \cap ExistingIn(destination)


\* C29: isLoading is true exactly while at least one list_media_files invocation is in
\* flight, so the completion of the first of two overlapping scans leaves it true.
C29_LoadingWhileScanning == isLoading <=> scans # EmptyBag


\* C30: once every loadMediaBlob call has settled, blobUrl is the blob of the file
\* shown last (null if that load failed) and the preview's isLoading is false.
C30_PreviewShowsLatest ==
  loads = {} /\ nLoads > 0
    => /\ ~previewIsLoading
       /\ blobUrl = IF latestFailed THEN NoBlob ELSE BlobFor(file)

====
